---- MODULE Spec2Model ----
(***************************************************************************)
(* A model of the persistence layer of the task manager                    *)
(* (src/database.py, class TaskDatabase) together with the record types    *)
(* it stores (src/models/task.py, src/models/category.py) and the import   *)
(* handler of the main window (src/views/main_window.py).                  *)
(*                                                                         *)
(* Optional values of the program (None / NULL) are modelled as the empty  *)
(* sequence and a present value v as the one-element sequence <<v>>.       *)
(* Text that is searched (the description) is a sequence of characters;    *)
(* other text (priority, category name, dates) is an atomic string.        *)
(***************************************************************************)
EXTENDS Integers, Sequences, FiniteSets, TLC

\* ---------------------------------------------------------------- bounds
\* The largest task identifier AUTOINCREMENT may hand out in a run.
MaxTaskId == 2
\* The largest category identifier AUTOINCREMENT may hand out in a run.
MaxCategoryId == 2
\* The wall clock runs over 1..MaxClock.
MaxClock == 2

\* ------------------------------------------------------- program constants
\* TaskDatabase.VERSION
VERSION == 2

\* TaskValidator.validate_description: the longest description accepted.
MaxDescriptionLength == 500

None == << >>

Some(v) == << v >>

\* Task.__post_init__: valid_priorities
valid_priorities == {"Low", "Medium", "High", "Urgent"}

\* The columns of CREATE TABLE tasks, in the order of the statement: the
\* order in which SELECT * yields them.
TaskColumns ==
    <<"id", "description", "priority", "category", "due_date", "completed",
      "created_at", "updated_at", "completed_at">>

\* The columns the CREATE INDEX statements of the initial schema name.
IndexedColumns == {"completed", "category", "due_date", "priority"}

\* The description of the default category.
GeneralDescription == Some("Default category for uncategorized tasks")

\* A timestamp older than every reading of the clock in a run (1..MaxClock):
\* what a Task read from an export file carries.
OldStamp == Some(0)

\* ------------------------------------------------------------ Task objects
\* The dataclass Task: the fields of a Task object.
Task(description, priority, category, completed, id, due_date, created_at, updated_at, completed_at) ==
    [id |-> id, description |-> description, priority |-> priority,
     category |-> category, due_date |-> due_date, completed |-> completed,
     created_at |-> created_at, updated_at |-> updated_at,
     completed_at |-> completed_at]

\* Characters str.strip() removes.
Whitespace == {" ", "\t", "\n"}

\* str.strip() of a text is non-empty: some character is no whitespace.
NotBlank(s) == \E i \in 1..Len(s) : s[i] \notin Whitespace

\* A variant of post_init_ok that accepts any priority.
post_init_ok_any_priority(t) ==
    /\ t.description # << >>
    /\ NotBlank(t.description)

\* Task.__post_init__: the construction raises ValueError unless this holds.
post_init_ok(t) ==
    /\ t.description # << >>
    /\ NotBlank(t.description)
    /\ t.priority \in valid_priorities

\* The dataclass Category: the fields of a Category object.
Category(name, description, id) ==
    [id |-> id, name |-> name, description |-> description]

\* Category names that are empty or consist of whitespace.
BlankNames == {"", " ", "\t"}

\* Category.__post_init__: the construction raises ValueError unless this
\* holds.
category_post_init_ok(c) == c.name \notin BlankNames

\* TaskValidator.validate_description
validate_description(description) ==
    /\ description # << >>
    /\ NotBlank(description)
    /\ Len(description) <= MaxDescriptionLength

\* int(task.completed)
int_of(b) == IF b THEN 1 ELSE 0

\* bool(row[5])
bool_of(n) == n # 0

\* Task.from_db_row: a Task object from the tuple of a row, by position.
from_db_row(row) ==
    Task(row[2], row[3], row[4], bool_of(row[6]), Some(row[1]), row[5],
         row[7], row[8], row[9])

\* Task.to_dict: the dictionary written to an export file.
to_dict(t) ==
    [id |-> t.id, description |-> t.description, priority |-> t.priority,
     category |-> t.category, due_date |-> t.due_date,
     completed |-> t.completed, created_at |-> t.created_at,
     updated_at |-> t.updated_at, completed_at |-> t.completed_at]

\* Task.from_dict: cls(**data), the identifier taking its default None when
\* the dictionary has no key 'id'.
from_dict(d) ==
    Task(d.description, d.priority, d.category, d.completed,
         IF "id" \in DOMAIN d THEN d.id ELSE None,
         d.due_date, d.created_at, d.updated_at, d.completed_at)

\* ------------------------------------------------------------------- dates
\* Days are numbered: the text "2024-01-01" names day 1, and a reading n of
\* the clock is taken on day n of the local calendar.
\* Due-date texts written as YYYY-MM-DD with both fields zero-padded.
PaddedDates == {"2024-01-01"}

\* Due-date texts with a month or day of one digit.
UnpaddedDates == {"2024-1-1"}

\* The day a date text names, whatever its padding.
day_of(s) == 1

\* datetime.strptime(s, "%Y-%m-%d").date(): the day, with or without the
\* zero padding; None stands for ValueError.
strptime(s) ==
    IF s \in PaddedDates \cup UnpaddedDates THEN Some(day_of(s)) ELSE None

\* SQLite's date(s): the day of a text in one of SQLite's time formats,
\* which need the zero padding; NULL for any other text.
date(s) == IF s \in PaddedDates THEN Some(day_of(s)) ELSE None

\* TaskValidator.validate_date: the empty text, or a text strptime reads.
validate_date(date_string) ==
    date_string = "" \/ strptime(date_string) # None

\* ------------------------------------------------------------------ inputs
\* Task objects handed to insert_task and update_task: a plain new task, a
\* task in a user category with a due date, and a completed task without a
\* category that carries an identifier and timestamps (as read back from an
\* export).
TaskInputs ==
    { Task(<<"a", "b">>, "Low", Some("General"), FALSE, None, None,
           None, None, None),
      Task(<<"A">>, "High", Some("Work"), FALSE, None, Some("2024-01-01"),
           None, None, None),
      Task(<<"x">>, "High", None, TRUE, Some(1), None,
           OldStamp, OldStamp, OldStamp) }

\* Category names handed to insert_category and delete_category.
CategoryNames == {"General", "Work"}

\* Names a Category object is built of: those, and blank ones.
NameInputs == CategoryNames \cup {" "}

\* A description one character longer than validate_description accepts.
LongDescription == [i \in 1..(MaxDescriptionLength + 1) |-> "a"]

\* What the user enters in the task dialog: a description, a priority
\* chosen from the list, a category, and a due date text (empty for none).
Forms ==
    { [description |-> <<"A">>, priority |-> "High",
       category |-> "Work", due_date |-> "2024-1-1"],
      [description |-> <<" ">>, priority |-> "Low",
       category |-> "General", due_date |-> ""],
      [description |-> <<"a", "b">>, priority |-> "Low",
       category |-> "General", due_date |-> "soon"],
      [description |-> LongDescription, priority |-> "Low",
       category |-> "General", due_date |-> ""] }

TaskIds == 1..MaxTaskId

\* Search strings: every string of at most two characters over this
\* alphabet, the SQL wildcards included.
Alphabet == {"a", "A", "b", "x", "%", "_"}

Queries ==
    {<< >>} \cup {<<c>> : c \in Alphabet}
            \cup {<<c, d>> : c \in Alphabet, d \in Alphabet}

\* ------------------------------------------------------------------- state
VARIABLES
    connection,      \* self.connection: "none" (not constructed), "open", "closed"
    schema,          \* which tables the file has, and the tasks table's shape
    schema_version,  \* the rows of table schema_version (a set of versions)
    tasks,           \* the rows of table tasks, by id
    seq,             \* the AUTOINCREMENT high-water mark of tasks
    categories,      \* the rows of table categories, by id
    cat_seq,         \* the AUTOINCREMENT high-water mark of categories
    in_transaction,  \* whether the connection has a transaction open
    clock,           \* the current reading of datetime.now()
    assigned,        \* every task identifier the database has handed out
    last,            \* the last call made and how it ended
    opened,          \* how many TaskDatabase objects the running
                     \* application has constructed (0: it is not running)
    search_var,           \* the toolbar's search text
    category_filter_var,  \* the toolbar's category selection
    priority_filter_var,  \* the toolbar's priority selection
    active_tree,     \* the rows of the active-tasks view
    completed_tree   \* the rows of the completed-tasks view

\* The state of the application window.
app ==
    <<opened, search_var, category_filter_var, priority_filter_var,
      active_tree, completed_tree>>

vars ==
    <<connection, schema, schema_version, tasks, seq, categories, cat_seq,
      in_transaction, clock, assigned, last, opened, search_var,
      category_filter_var, priority_filter_var, active_tree, completed_tree>>

\* What a call leaves in `last`: its name, its arguments (for insert_task
\* and insert_category, id is the identifier returned), its outcome ("ok" or
\* the exception raised) and the last reading of the clock it took.
Call(op, id, name, task, res, at) ==
    [op |-> op, id |-> id, name |-> name, task |-> task, res |-> res,
     at |-> at]

\* The names of the stored categories.
CategoryNamesStored == {categories[c].name : c \in DOMAIN categories}

\* ------------------------------------------------------- database files
\* A file sqlite3.connect has just created: no table at all.
EmptyFile ==
    [schema |-> [schema_version |-> FALSE, tasks |-> FALSE, columns |-> << >>,
                 fk |-> FALSE, categories |-> FALSE],
     schema_version |-> {}, tasks |-> << >>, seq |-> 0,
     categories |-> << >>, cat_seq |-> 0]

\* A file recorded at version 1 whose tasks table lacks the three timestamp
\* columns and holds one completed task, and which has no categories table.
V1File ==
    [schema |-> [schema_version |-> TRUE, tasks |-> TRUE,
                 columns |-> SubSeq(TaskColumns, 1, 6),
                 fk |-> FALSE, categories |-> FALSE],
     schema_version |-> {1},
     tasks |-> (1 :> [id |-> 1, description |-> <<"b">>, priority |-> "Medium",
                      category |-> Some("General"), due_date |-> None,
                      completed |-> 1]),
     seq |-> 1, categories |-> << >>, cat_seq |-> 0]

\* A file recorded at version 1 that already has every column and a
\* categories table with no row: what a migration leaves when the process
\* is killed between its CREATE TABLE categories, which is committed on its
\* own, and the INSERT of "General" that follows.
V1FileWithCategories ==
    [schema |-> [schema_version |-> TRUE, tasks |-> TRUE,
                 columns |-> TaskColumns, fk |-> FALSE, categories |-> TRUE],
     schema_version |-> {1}, tasks |-> << >>, seq |-> 0,
     categories |-> << >>, cat_seq |-> 0]

\* A file without a recorded version that has both tables and no row: what
\* the first start leaves when the process is killed after the CREATE TABLE
\* statements of _create_initial_schema, which are committed one by one,
\* and before its commit.
InterruptedFile ==
    [schema |-> [schema_version |-> TRUE, tasks |-> TRUE,
                 columns |-> TaskColumns, fk |-> TRUE, categories |-> TRUE],
     schema_version |-> {}, tasks |-> << >>, seq |-> 0,
     categories |-> << >>, cat_seq |-> 0]

\* A file without a recorded version that has both tables and "General":
\* what the first start leaves when the process is killed after the commit
\* of _create_initial_schema and before _set_version.
CreatedFile ==
    [schema |-> [schema_version |-> TRUE, tasks |-> TRUE,
                 columns |-> TaskColumns, fk |-> TRUE, categories |-> TRUE],
     schema_version |-> {}, tasks |-> << >>, seq |-> 0,
     categories |-> (1 :> [id |-> 1, name |-> "General",
                           description |-> GeneralDescription]),
     cat_seq |-> 1]

Files ==
    {EmptyFile, InterruptedFile, CreatedFile, V1File, V1FileWithCategories}

Init ==
    /\ \E f \in Files :
          /\ schema = f.schema
          /\ schema_version = f.schema_version
          /\ tasks = f.tasks
          /\ seq = f.seq
          /\ assigned = DOMAIN f.tasks
          /\ categories = f.categories
          /\ cat_seq = f.cat_seq
    /\ connection = "none"
    /\ in_transaction = FALSE
    /\ clock = 1
    /\ last = Call("none", None, None, None, "ok", 1)
    /\ opened = 0
    /\ search_var = << >>
    /\ category_filter_var = "All"
    /\ priority_filter_var = "All"
    /\ active_tree = << >>
    /\ completed_tree = << >>

\* ------------------------------------------------------ schema, migration
Max(S) == CHOOSE x \in S : \A y \in S : y <= x

\* TaskDatabase._get_version: MAX(version), 0 when there is no row.
get_version == IF schema_version = {} THEN 0 ELSE Max(schema_version)

Range(s) == {s[i] : i \in DOMAIN s}

\* A variant of with_general that inserts nothing.
with_general_absent(cats, cseq) == cats

\* A variant of with_general for a plain INSERT into a table without UNIQUE.
with_general_again(cats, cseq) ==
    cats @@ ((cseq + 1) :>
        [id |-> cseq + 1, name |-> "General",
         description |-> GeneralDescription])

\* The categories after INSERT OR IGNORE of "General": unchanged when a row
\* of that name exists.
with_general(cats, cseq) ==
    IF \E c \in DOMAIN cats : cats[c].name = "General"
    THEN cats
    ELSE cats @@ ((cseq + 1) :>
            [id |-> cseq + 1, name |-> "General",
             description |-> GeneralDescription])

\* TaskDatabase._create_initial_schema raises when a CREATE INDEX names a
\* column an already existing tasks table does not have.
create_initial_schema_fails ==
    schema.tasks /\ ~ (IndexedColumns \subseteq Range(schema.columns))

\* TaskDatabase._create_initial_schema: both tables IF NOT EXISTS (a new
\* tasks table has the current columns and the foreign key), the default
\* category, the indexes.
create_initial_schema ==
    /\ schema' = [schema EXCEPT
            !.schema_version = TRUE,
            !.categories = TRUE,
            !.tasks = TRUE,
            !.columns = IF schema.tasks THEN @ ELSE TaskColumns,
            !.fk = IF schema.tasks THEN @ ELSE TRUE]
    /\ categories' = with_general(categories, cat_seq)
    /\ cat_seq' = IF categories' = categories THEN cat_seq ELSE cat_seq + 1
    /\ UNCHANGED <<tasks, seq>>

\* The value ALTER TABLE ADD COLUMN gives existing rows in column c, the
\* UPDATE that follows it for created_at and updated_at included.
added_value(c) ==
    CASE c = "priority" -> "Medium"
      [] c = "category" -> Some("General")
      [] c \in {"created_at", "updated_at"} -> Some(clock)
      [] OTHER -> None

\* A variant of added_columns without the column completed_at.
added_columns_but_last(cols) ==
    SelectSeq(<<"priority", "category", "due_date", "created_at",
                "updated_at">>,
              LAMBDA c : c \notin Range(cols))

\* The columns the migration adds to a tasks table with columns cols, in
\* the order of its ALTER TABLE statements.
added_columns(cols) ==
    SelectSeq(<<"priority", "category", "due_date", "created_at",
                "updated_at", "completed_at">>,
              LAMBDA c : c \notin Range(cols))

\* TaskDatabase._migrate_v1_to_v2: add the missing columns of an existing
\* tasks table; create the categories table, with "General", if there is
\* none.
migrate_v1_to_v2 ==
    LET add == added_columns(schema.columns) IN
    /\ schema' = [schema EXCEPT
            !.schema_version = TRUE,
            !.columns = IF schema.tasks THEN @ \o add ELSE @,
            !.categories = TRUE]
    /\ tasks' = IF schema.tasks
                THEN [i \in DOMAIN tasks |->
                        tasks[i] @@ [c \in Range(add) |-> added_value(c)]]
                ELSE tasks
    /\ categories' = IF schema.categories THEN categories
                     ELSE with_general(categories, cat_seq)
    /\ cat_seq' = IF categories' = categories THEN cat_seq ELSE cat_seq + 1
    /\ UNCHANGED seq

\* TaskDatabase.__init__: _connect, then _initialize_database: the version
\* table, then the full schema for version 0 or the migration for an older
\* version, then the version row; nothing for the current version.
Open ==
    /\ connection \in {"none", "closed"}
    /\ UNCHANGED assigned
    /\ in_transaction' = FALSE
    /\ UNCHANGED clock
    /\ IF get_version = 0
       THEN IF create_initial_schema_fails
            THEN /\ schema' = [schema EXCEPT !.schema_version = TRUE,
                                             !.categories = TRUE]
                 /\ connection' = "none"
                 /\ last' = Call("open", None, None, None, "DatabaseError", clock)
                 /\ UNCHANGED <<schema_version, tasks, seq, categories, cat_seq>>
            ELSE /\ create_initial_schema
                 /\ schema_version' = schema_version \cup {VERSION}
                 /\ connection' = "open"
                 /\ last' = Call("open", None, None, None, "ok", clock)
       ELSE IF get_version < VERSION
            THEN /\ migrate_v1_to_v2
                 /\ schema_version' = schema_version \cup {VERSION}
                 /\ connection' = "open"
                 /\ last' = Call("open", None, None, None, "ok", clock)
            ELSE /\ connection' = "open"
                 /\ last' = Call("open", None, None, None, "ok", clock)
                 /\ UNCHANGED <<schema, schema_version, tasks, seq,
                                categories, cat_seq>>

\* TaskDatabase.close: closing the connection ends an open transaction.
Close ==
    /\ connection = "open"
    /\ UNCHANGED assigned
    /\ connection' = "closed"
    /\ in_transaction' = FALSE
    /\ last' = Call("close", None, None, None, "ok", clock)
    /\ UNCHANGED <<schema, schema_version, tasks, seq, categories, cat_seq,
                   clock>>

\* Time passes.
Tick ==
    /\ clock < MaxClock
    /\ UNCHANGED assigned
    /\ clock' = clock + 1
    /\ UNCHANGED <<connection, schema, schema_version, tasks, seq,
                   categories, cat_seq, in_transaction, last>>

\* -------------------------------------------------------- task operations
\* The statements on tasks name every current column: they raise
\* sqlite3.OperationalError unless the table exists and has them.
tasks_table_ok ==
    schema.tasks /\ Range(TaskColumns) \subseteq Range(schema.columns)

\* A variant of fk_ok for a connection without PRAGMA foreign_keys = ON.
fk_ok_off(category) == TRUE

\* FOREIGN KEY (category) REFERENCES categories(name), enforced by
\* PRAGMA foreign_keys = ON on a table created with it: a non-NULL category
\* must name a stored category.
fk_ok(category) ==
    \/ ~ schema.fk
    \/ category = None
    \/ category[1] \in CategoryNamesStored

\* A variant of inserted_row that keeps the timestamps a task carries.
inserted_row_keeps_stamps(id, t, now) ==
    [c \in Range(schema.columns) |->
        CASE c = "id" -> id
          [] c = "description" -> t.description
          [] c = "priority" -> t.priority
          [] c = "category" -> t.category
          [] c = "due_date" -> t.due_date
          [] c = "completed" -> int_of(t.completed)
          [] c = "created_at" ->
                IF t.created_at = None THEN Some(now) ELSE t.created_at
          [] c = "updated_at" ->
                IF t.updated_at = None THEN Some(now) ELSE t.updated_at
          [] OTHER -> None]

\* The row INSERT INTO tasks stores for Task t under identifier id at time
\* now: seven columns are given, the others (completed_at) stay NULL.
inserted_row(id, t, now) ==
    [c \in Range(schema.columns) |->
        CASE c = "id" -> id
          [] c = "description" -> t.description
          [] c = "priority" -> t.priority
          [] c = "category" -> t.category
          [] c = "due_date" -> t.due_date
          [] c = "completed" -> int_of(t.completed)
          [] c = "created_at" -> Some(now)
          [] c = "updated_at" -> Some(now)
          [] OTHER -> None]

\* A variant of updated_row that leaves updated_at as it is.
updated_row_keeps_stamp(row, t, now) ==
    [row EXCEPT !.description = t.description,
                !.priority = t.priority,
                !.category = t.category,
                !.due_date = t.due_date,
                !.completed = int_of(t.completed)]

\* The row UPDATE tasks SET ... leaves for Task t at time now: six columns
\* are set, the others (id, created_at, completed_at) are kept.
updated_row(row, t, now) ==
    [row EXCEPT !.description = t.description,
                !.priority = t.priority,
                !.category = t.category,
                !.due_date = t.due_date,
                !.completed = int_of(t.completed),
                !.updated_at = Some(now)]

\* A variant of rowcount that never reports zero rows.
rowcount_one(task_id) == 1

\* A variant of deleted_rows that keeps the row and marks it completed.
deleted_rows_soft(rows, task_id) ==
    [i \in DOMAIN rows |->
        IF i = task_id THEN [rows[i] EXCEPT !.completed = 1] ELSE rows[i]]

\* A variant of deleted_rows for a DELETE without its WHERE clause.
deleted_rows_all(rows, task_id) == << >>

\* cursor.rowcount after an UPDATE or DELETE ... WHERE id = task_id.
rowcount(task_id) == IF task_id \in DOMAIN tasks THEN 1 ELSE 0

\* The rows DELETE FROM tasks WHERE id = task_id leaves.
deleted_rows(rows, task_id) == [i \in DOMAIN rows \ {task_id} |-> rows[i]]

\* A variant of autoincrement for a plain INTEGER PRIMARY KEY: one more
\* than the largest identifier stored.
rowid_after_largest(high, rows) ==
    IF DOMAIN rows = {} THEN 1 ELSE Max(DOMAIN rows) + 1

\* id INTEGER PRIMARY KEY AUTOINCREMENT: the identifier of a new row is one
\* more than the largest the table ever held, which SQLite keeps on record.
autoincrement(high, rows) == high + 1

\* TaskDatabase.insert_task: one INSERT in a transaction; the identifier is
\* the AUTOINCREMENT one, whatever t.id is. A failing statement is rolled
\* back by transaction() and surfaces as DatabaseError.
insert_task(t) ==
    /\ connection = "open"
    /\ seq < MaxTaskId
    /\ IF tasks_table_ok /\ fk_ok(t.category)
       THEN LET id == autoincrement(seq, tasks) IN
            /\ tasks' = tasks @@ (id :> inserted_row(id, t, clock))
            /\ seq' = id
            /\ assigned' = assigned \cup {id}
            /\ last' = Call("insert_task", Some(id), None, Some(t), "ok", clock)
       ELSE /\ last' = Call("insert_task", None, None, Some(t), "DatabaseError", clock)
            /\ UNCHANGED <<tasks, seq, assigned>>
    /\ in_transaction' = FALSE
    /\ UNCHANGED <<connection, schema, schema_version, categories, cat_seq,
                   clock>>

\* TaskDatabase.update_task: ValueError without an identifier; else one
\* UPDATE in a transaction. When no row matches, DatabaseError is raised
\* inside the with block: it is no sqlite3.Error, so transaction() neither
\* commits nor rolls back.
update_task(t) ==
    /\ connection = "open"
    /\ UNCHANGED assigned
    /\ IF t.id = None
       THEN /\ last' = Call("update_task", None, None, Some(t), "ValueError", clock)
            /\ UNCHANGED <<tasks, in_transaction>>
       ELSE IF ~ tasks_table_ok
       THEN /\ last' = Call("update_task", t.id, None, Some(t), "DatabaseError", clock)
            /\ in_transaction' = FALSE
            /\ UNCHANGED tasks
       ELSE IF rowcount(t.id[1]) = 0
       THEN /\ last' = Call("update_task", t.id, None, Some(t), "DatabaseError", clock)
            /\ in_transaction' = TRUE
            /\ UNCHANGED tasks
       ELSE IF ~ fk_ok(t.category)
       THEN /\ last' = Call("update_task", t.id, None, Some(t), "DatabaseError", clock)
            /\ in_transaction' = FALSE
            /\ UNCHANGED tasks
       ELSE /\ tasks' = [tasks EXCEPT ![t.id[1]] = updated_row(@, t, clock)]
            /\ in_transaction' = FALSE
            /\ last' = Call("update_task", t.id, None, Some(t), "ok", clock)
    /\ UNCHANGED <<connection, schema, schema_version, seq, categories,
                   cat_seq, clock>>

\* The row UPDATE ... SET completed = 1, completed_at = ?, updated_at = ?
\* leaves, the two timestamps being two readings of the clock.
completed_row(row, now1, now2) ==
    [row EXCEPT !.completed = 1,
                !.completed_at = Some(now1),
                !.updated_at = Some(now2)]

\* A variant of incomplete_row that leaves completed_at as it is.
incomplete_row_keeps_stamp(row, now) ==
    [row EXCEPT !.completed = 0,
                !.updated_at = Some(now)]

\* The row UPDATE ... SET completed = 0, completed_at = NULL, updated_at = ?
\* leaves.
incomplete_row(row, now) ==
    [row EXCEPT !.completed = 0,
                !.completed_at = None,
                !.updated_at = Some(now)]

\* TaskDatabase.mark_task_complete: completed = 1, completed_at and
\* updated_at each from its own reading of the clock (now2 is the second).
mark_task_complete(task_id, now2) ==
    /\ connection = "open"
    /\ UNCHANGED assigned
    /\ clock' = now2
    /\ IF ~ tasks_table_ok
       THEN /\ last' = Call("mark_task_complete", Some(task_id), None, None,
                            "DatabaseError", now2)
            /\ in_transaction' = FALSE
            /\ UNCHANGED tasks
       ELSE IF rowcount(task_id) = 0
       THEN /\ last' = Call("mark_task_complete", Some(task_id), None, None,
                            "DatabaseError", now2)
            /\ in_transaction' = TRUE
            /\ UNCHANGED tasks
       ELSE /\ tasks' = [tasks EXCEPT ![task_id] = completed_row(@, clock, now2)]
            /\ in_transaction' = FALSE
            /\ last' = Call("mark_task_complete", Some(task_id), None, None, "ok", now2)
    /\ UNCHANGED <<connection, schema, schema_version, seq, categories,
                   cat_seq>>

\* TaskDatabase.mark_task_incomplete: completed = 0, completed_at = NULL.
mark_task_incomplete(task_id) ==
    /\ connection = "open"
    /\ UNCHANGED assigned
    /\ IF ~ tasks_table_ok
       THEN /\ last' = Call("mark_task_incomplete", Some(task_id), None, None,
                            "DatabaseError", clock)
            /\ in_transaction' = FALSE
            /\ UNCHANGED tasks
       ELSE IF rowcount(task_id) = 0
       THEN /\ last' = Call("mark_task_incomplete", Some(task_id), None, None,
                            "DatabaseError", clock)
            /\ in_transaction' = TRUE
            /\ UNCHANGED tasks
       ELSE /\ tasks' = [tasks EXCEPT ![task_id] = incomplete_row(@, clock)]
            /\ in_transaction' = FALSE
            /\ last' = Call("mark_task_incomplete", Some(task_id), None, None,
                            "ok", clock)
    /\ UNCHANGED <<connection, schema, schema_version, seq, categories,
                   cat_seq, clock>>

\* TaskDatabase.delete_task: one DELETE; DatabaseError when no row matches.
delete_task(task_id) ==
    /\ connection = "open"
    /\ UNCHANGED assigned
    /\ IF ~ schema.tasks
       THEN /\ last' = Call("delete_task", Some(task_id), None, None,
                            "DatabaseError", clock)
            /\ in_transaction' = FALSE
            /\ UNCHANGED tasks
       ELSE IF rowcount(task_id) = 0
       THEN /\ last' = Call("delete_task", Some(task_id), None, None,
                            "DatabaseError", clock)
            /\ in_transaction' = TRUE
            /\ UNCHANGED tasks
       ELSE /\ tasks' = deleted_rows(tasks, task_id)
            /\ in_transaction' = FALSE
            /\ last' = Call("delete_task", Some(task_id), None, None, "ok", clock)
    /\ UNCHANGED <<connection, schema, schema_version, seq, categories,
                   cat_seq, clock>>

\* ---------------------------------------------------- category operations
\* A variant of unique_ok without the UNIQUE constraint.
unique_ok_unchecked(name) == TRUE

\* name TEXT UNIQUE NOT NULL: an INSERT of a name already stored fails.
unique_ok(name) == name \notin CategoryNamesStored

\* TaskDatabase.insert_category(Category(name=name)): ValueError from the
\* construction of a Category with a blank name; else one INSERT, where a
\* name already stored violates UNIQUE, which transaction() rolls back and
\* raises as DatabaseError.
insert_category(name) ==
    /\ connection = "open"
    /\ UNCHANGED assigned
    /\ cat_seq < MaxCategoryId
    /\ IF ~ category_post_init_ok(Category(name, None, None))
       THEN /\ last' = Call("insert_category", None, Some(name), None,
                            "ValueError", clock)
            /\ UNCHANGED <<categories, cat_seq, in_transaction>>
       ELSE
       IF schema.categories /\ unique_ok(name)
       THEN /\ categories' = categories @@ ((cat_seq + 1) :>
                [id |-> cat_seq + 1, name |-> name, description |-> None])
            /\ cat_seq' = cat_seq + 1
            /\ last' = Call("insert_category", Some(cat_seq + 1), Some(name),
                            None, "ok", clock)
            /\ in_transaction' = FALSE
       ELSE /\ last' = Call("insert_category", None, Some(name), None,
                            "DatabaseError", clock)
            /\ in_transaction' = FALSE
            /\ UNCHANGED <<categories, cat_seq>>
    /\ UNCHANGED <<connection, schema, schema_version, tasks, seq, clock>>

\* A variant of set_default for ON DELETE CASCADE: the referring rows go.
set_default_cascade(rows, name) ==
    [i \in {j \in DOMAIN rows : rows[j].category # Some(name)} |-> rows[i]]

\* ON DELETE SET DEFAULT: the rows of a table created with the foreign key
\* that refer to the deleted name get the column default 'General'.
set_default(rows, name) ==
    [i \in DOMAIN rows |->
        IF rows[i].category = Some(name)
        THEN [rows[i] EXCEPT !.category = Some("General")]
        ELSE rows[i]]

\* TaskDatabase.delete_category: ValueError for "General"; else one DELETE,
\* with DatabaseError when no row matches. With the foreign key the delete
\* resets the referring tasks, and fails if "General" is not stored while
\* some task refers to the deleted name.
delete_category(category_name) ==
    /\ connection = "open"
    /\ UNCHANGED assigned
    /\ IF category_name = "General"
       THEN /\ last' = Call("delete_category", None, Some(category_name), None,
                            "ValueError", clock)
            /\ UNCHANGED <<categories, tasks, in_transaction>>
       ELSE IF ~ schema.categories
       THEN /\ last' = Call("delete_category", None, Some(category_name), None,
                            "DatabaseError", clock)
            /\ in_transaction' = FALSE
            /\ UNCHANGED <<categories, tasks>>
       ELSE IF category_name \notin CategoryNamesStored
       THEN /\ last' = Call("delete_category", None, Some(category_name), None,
                            "DatabaseError", clock)
            /\ in_transaction' = TRUE
            /\ UNCHANGED <<categories, tasks>>
       ELSE IF /\ schema.fk
               /\ "General" \notin CategoryNamesStored
               /\ \E i \in DOMAIN tasks : tasks[i].category = Some(category_name)
       THEN /\ last' = Call("delete_category", None, Some(category_name), None,
                            "DatabaseError", clock)
            /\ in_transaction' = FALSE
            /\ UNCHANGED <<categories, tasks>>
       ELSE /\ categories' =
                [c \in {d \in DOMAIN categories :
                            categories[d].name # category_name} |->
                    categories[c]]
            /\ tasks' = IF schema.fk THEN set_default(tasks, category_name)
                        ELSE tasks
            /\ in_transaction' = FALSE
            /\ last' = Call("delete_category", None, Some(category_name), None,
                            "ok", clock)
    /\ UNCHANGED <<connection, schema, schema_version, seq, cat_seq, clock>>

\* ------------------------------------------------------------------ import
\* The keys of a task dictionary whose value is never None in a Task that
\* passed __post_init__.
RequiredKeys == {"description", "priority", "completed"}

\* json.dump of a task dictionary: None is written as null, every other
\* value as a JSON value of its own.
json_dump(d) ==
    [k \in DOMAIN d |->
        IF k \in RequiredKeys THEN [kind |-> "value", value |-> d[k]]
        ELSE IF d[k] = None THEN [kind |-> "null"]
        ELSE [kind |-> "value", value |-> d[k][1]]]

\* json.load of a task dictionary: null is read as None.
json_load(j) ==
    [k \in DOMAIN j |->
        IF j[k].kind = "null" THEN None
        ELSE IF k \in RequiredKeys THEN j[k].value
        ELSE Some(j[k].value)]

\* DataExporter.export_to_json: the list under 'tasks' of the file written
\* for the tasks L.
export_to_json(L) == [i \in DOMAIN L |-> json_dump(to_dict(L[i]))]

\* A variant of pop_id that removes nothing.
pop_id_kept(d) == d

\* task_data.pop('id', None)
pop_id(d) == [k \in DOMAIN d \ {"id"} |-> d[k]]

\* DataExporter.import_from_json on a file whose 'tasks' list is file: the
\* Task objects, each built without the identifier of its dictionary.
import_tasks(file) ==
    [i \in DOMAIN file |-> from_dict(pop_id(json_load(file[i])))]

\* Export files: what export_to_json writes for a list of one or two tasks.
ExportFiles ==
    {export_to_json(<<t>>) : t \in TaskInputs}
        \cup {export_to_json(<<t, u>>) : t \in TaskInputs, u \in TaskInputs}

\* Dictionaries no export wrote: a due date that is no date, a description
\* of blanks, a priority that is no level.
BadDueDate ==
    [id |-> None, description |-> <<"a", "b">>, priority |-> "Low",
     category |-> Some("General"), due_date |-> Some("soon"),
     completed |-> FALSE, created_at |-> None, updated_at |-> None,
     completed_at |-> None]

BlankDescription == [BadDueDate EXCEPT !.description = <<" ">>, !.due_date = None]

BadPriority == [BadDueDate EXCEPT !.priority = "Someday", !.due_date = None]

\* Files written by hand: one record with such a due date, a well-formed
\* record followed by one with such a description, one record with such a
\* priority.
MalformedFiles ==
    { <<json_dump(BadDueDate)>>,
      <<json_dump([BadDueDate EXCEPT !.due_date = None]),
        json_dump(BlankDescription)>>,
      <<json_dump(BadPriority)>> }

JsonFiles == ExportFiles \cup MalformedFiles

\* The text csv.DictWriter writes for an optional text: nothing for None.
csv_text(x) == IF x = None THEN "" ELSE x[1]

\* The text csv.DictWriter writes for an optional number.
csv_number(x) == IF x = None THEN "" ELSE ToString(x[1])

\* DataExporter.export_to_csv: the row written for a task dictionary, every
\* value as its text.
csv_row(d) ==
    [id |-> csv_number(d.id),
     description |-> d.description,
     priority |-> d.priority,
     category |-> csv_text(d.category),
     due_date |-> csv_text(d.due_date),
     completed |-> IF d.completed THEN "True" ELSE "False",
     created_at |-> csv_number(d.created_at),
     updated_at |-> csv_number(d.updated_at),
     completed_at |-> csv_number(d.completed_at)]

\* DataExporter.export_to_csv: the rows of the file written for the tasks L.
export_to_csv(L) == [i \in DOMAIN L |-> csv_row(to_dict(L[i]))]

\* The texts import_from_csv replaces by None.
NoneTexts == {"None", "null", ""}

\* The same texts as descriptions.
NoneDescriptions ==
    {<<"N", "o", "n", "e">>, <<"n", "u", "l", "l">>, << >>}

\* A variant of text_of that keeps every text.
text_of_kept(cell) == Some(cell)

\* The optional text read from a cell.
text_of(cell) == IF cell \in NoneTexts THEN None ELSE Some(cell)

\* The optional timestamp read from a cell: the text is kept as it is, so
\* it is the timestamp whose text it is.
stamp_of(cell) ==
    IF cell \in NoneTexts THEN None
    ELSE Some(CHOOSE n \in 0..MaxClock : ToString(n) = cell)

\* DataExporter.import_from_csv: the dictionary made of a row. The
\* identifier is dropped, completed is read from its text, and the texts
\* 'None', 'null' and '' become None. (A priority of None and a priority
\* text that is no level fail __post_init__ alike: the text is kept here.)
csv_dict(row) ==
    [id |-> None,
     description |->
        IF row.description \in NoneDescriptions THEN None ELSE row.description,
     priority |-> row.priority,
     category |-> text_of(row.category),
     due_date |-> text_of(row.due_date),
     completed |-> row.completed \in {"1", "True", "true"},
     created_at |-> stamp_of(row.created_at),
     updated_at |-> stamp_of(row.updated_at),
     completed_at |-> stamp_of(row.completed_at)]

\* DataExporter.import_from_csv on a file with these rows.
import_csv_tasks(rows) == [i \in DOMAIN rows |-> from_dict(csv_dict(rows[i]))]

\* CSV files: exports of one and of two tasks, and rows written by hand
\* with a due date that is no date, with the description 'None' and with
\* an empty priority cell.
CsvFiles ==
    {export_to_csv(<<t>>) : t \in TaskInputs}
        \cup { export_to_csv(<<Task(<<"a", "b">>, "Low", Some("General"),
                                   FALSE, Some(1), None, OldStamp, OldStamp,
                                   None),
                              Task(<<"A">>, "High", Some("Work"), FALSE,
                                   Some(2), Some("2024-01-01"), OldStamp,
                                   OldStamp, None)>>),
               <<csv_row(BadDueDate)>>,
               <<csv_row([BadDueDate EXCEPT
                            !.description = <<"N", "o", "n", "e">>])>>,
               <<[csv_row(BadDueDate) EXCEPT !.priority = "",
                                             !.due_date = ""]>> }

\* The number of tasks of ts the loop inserts: all of them, or those before
\* the first whose INSERT fails.
inserted_count(ts) ==
    IF ~ tasks_table_ok THEN 0
    ELSE IF \A i \in DOMAIN ts : fk_ok(ts[i].category) THEN Len(ts)
    ELSE (CHOOSE i \in DOMAIN ts :
            /\ ~ fk_ok(ts[i].category)
            /\ \A j \in 1..(i - 1) : fk_ok(ts[j].category)) - 1

\* The handlers import_from_json and import_from_csv of TaskManagerApp, for
\* the tasks ts the importer built from the chosen file. A record that
\* fails __post_init__ raises ValueError before any task is inserted. Else
\* insert_task is called for each task in turn, each in its own
\* transaction; the first failure ends the loop. Either error is shown in a
\* message box.
import_loop(op, ts) ==
    LET n == inserted_count(ts)
        first == autoincrement(seq, tasks)
    IN
    /\ connection = "open"
    /\ seq + Len(ts) <= MaxTaskId
    /\ IF \E i \in DOMAIN ts : ~ post_init_ok(ts[i])
       THEN /\ last' = Call(op, None, None, None, "ValueError", clock)
            /\ UNCHANGED <<tasks, seq, assigned, in_transaction>>
       ELSE /\ tasks' = tasks @@
                    [id \in first..(first + n - 1) |->
                        inserted_row(id, ts[id - first + 1], clock)]
            /\ seq' = IF n = 0 THEN seq ELSE first + n - 1
            /\ assigned' = assigned \cup first..(first + n - 1)
            /\ in_transaction' = FALSE
            /\ last' = Call(op, None, None, None,
                            IF n = Len(ts) THEN "ok" ELSE "DatabaseError", clock)
    /\ UNCHANGED <<connection, schema, schema_version, categories, cat_seq,
                   clock>>

\* TaskManagerApp.import_from_json
import_from_json(file) == import_loop("import_from_json", import_tasks(file))

\* TaskManagerApp.import_from_csv
import_from_csv(rows) == import_loop("import_from_csv", import_csv_tasks(rows))

\* ----------------------------------------------------------------- queries
\* SELECT *: the tuple of a row, its columns in the order of the table.
select_star(row) == [i \in 1..Len(schema.columns) |-> row[schema.columns[i]]]

\* The rank of a timestamp under ORDER BY: NULL sorts below every value.
sort_key(x) == IF x = None THEN 0 ELSE x[1] + 1

\* ORDER BY col DESC over the rows with identifiers in S. SQL leaves the
\* order of rows with equal keys open; they are listed here by identifier.
RECURSIVE order_by_desc(_, _)
order_by_desc(S, col) ==
    IF S = {} THEN << >>
    ELSE LET top == CHOOSE i \in S : \A j \in S :
                      \/ sort_key(tasks[j][col]) < sort_key(tasks[i][col])
                      \/ /\ sort_key(tasks[j][col]) = sort_key(tasks[i][col])
                         /\ i <= j
         IN <<top>> \o order_by_desc(S \ {top}, col)

\* cursor.fetchall() mapped through Task.from_db_row, for the rows with
\* identifiers in S ordered by col DESC.
fetch_tasks(S, col) ==
    LET ids == order_by_desc(S, col)
    IN [k \in DOMAIN ids |-> from_db_row(select_star(tasks[ids[k]]))]

\* TaskDatabase.get_task_by_id
get_task_by_id(task_id) ==
    IF task_id \in DOMAIN tasks
    THEN Some(from_db_row(select_star(tasks[task_id])))
    ELSE None

\* TaskDatabase.get_all_tasks
get_all_tasks(include_completed) ==
    IF include_completed
    THEN fetch_tasks(DOMAIN tasks, "created_at")
    ELSE fetch_tasks({i \in DOMAIN tasks : tasks[i].completed = 0},
                     "created_at")

\* A variant of get_completed_tasks that selects by completed_at.
get_completed_tasks_by_stamp ==
    fetch_tasks({i \in DOMAIN tasks : tasks[i].completed_at # None},
                "completed_at")

\* TaskDatabase.get_completed_tasks
get_completed_tasks ==
    fetch_tasks({i \in DOMAIN tasks : tasks[i].completed = 1}, "completed_at")

\* A variant of get_tasks_by_category that treats NULL as any category.
get_tasks_by_category_or_null(category) ==
    fetch_tasks({i \in DOMAIN tasks :
                    tasks[i].category \in {None, Some(category)}},
                "created_at")

\* TaskDatabase.get_tasks_by_category
get_tasks_by_category(category) ==
    fetch_tasks({i \in DOMAIN tasks : tasks[i].category = Some(category)},
                "created_at")

\* TaskDatabase.get_tasks_by_priority
get_tasks_by_priority(priority) ==
    fetch_tasks({i \in DOMAIN tasks : tasks[i].priority = priority},
                "created_at")

\* The alphabetical order of the category names of a run.
NameOrder == <<"General", "Home", "Work">>

NameRank(name) == CHOOSE k \in DOMAIN NameOrder : NameOrder[k] = name

\* Category.from_db_row
category_from_db_row(row) ==
    [id |-> Some(row.id), name |-> row.name, description |-> row.description]

RECURSIVE order_by_name(_)
order_by_name(S) ==
    IF S = {} THEN << >>
    ELSE LET top == CHOOSE c \in S : \A d \in S :
                      NameRank(categories[c].name) <= NameRank(categories[d].name)
         IN <<top>> \o order_by_name(S \ {top})

\* TaskDatabase.get_all_categories: SELECT * FROM categories ORDER BY name
get_all_categories ==
    LET ids == order_by_name(DOMAIN categories)
    IN [k \in DOMAIN ids |-> category_from_db_row(categories[ids[k]])]

\* The folding of ASCII letters that LIKE applies to both of its operands.
Lower(c) ==
    CASE c = "A" -> "a"
      [] c = "B" -> "b"
      [] c = "X" -> "x"
      [] OTHER -> c

\* SQLite's LIKE: '%' matches any run of characters, '_' any one character,
\* every other character itself, letters regardless of case.
RECURSIVE Like(_, _)
Like(pattern, s) ==
    IF pattern = << >> THEN s = << >>
    ELSE IF Head(pattern) = "%"
    THEN \/ Like(Tail(pattern), s)
         \/ s # << >> /\ Like(pattern, Tail(s))
    ELSE IF Head(pattern) = "_"
    THEN s # << >> /\ Like(Tail(pattern), Tail(s))
    ELSE /\ s # << >>
         /\ Lower(Head(pattern)) = Lower(Head(s))
         /\ Like(Tail(pattern), Tail(s))

\* TaskDatabase.search_tasks: description LIKE '%' + query + '%'
search_tasks(query) ==
    fetch_tasks({i \in DOMAIN tasks :
                    Like(<<"%">> \o query \o <<"%">>, tasks[i].description)},
                "created_at")

\* datetime.now().date(): the local day of the current reading of the clock.
today == clock

\* What date('now') may be: SQLite takes 'now' in UTC, whose calendar day is
\* the local day or the one before or after it, by the zone and the hour.
UtcDates == {clock - 1, clock, clock + 1}

\* Task.is_overdue
is_overdue(t) ==
    IF t.due_date = None \/ t.due_date = Some("") \/ t.completed
    THEN FALSE
    ELSE LET due == strptime(t.due_date[1])
         IN due # None /\ due[1] < today

\* The entry 'overdue' of get_task_statistics when date('now') is date_now:
\* the tasks with completed = 0 whose due date SQLite reads as a day before
\* date_now.
overdue(date_now) ==
    Cardinality({i \in DOMAIN tasks :
        /\ tasks[i].completed = 0
        /\ tasks[i].due_date # None
        /\ date(tasks[i].due_date[1]) # None
        /\ date(tasks[i].due_date[1])[1] < date_now})

\* A variant of get_task_statistics whose GROUP BY queries lack the
\* condition completed = 0.
get_task_statistics_ungrouped ==
    LET total == Cardinality(DOMAIN tasks)
        completed == Cardinality({i \in DOMAIN tasks : tasks[i].completed = 1})
    IN [total |-> total,
        completed |-> completed,
        active |-> total - completed,
        by_priority |->
            [p \in {tasks[i].priority : i \in DOMAIN tasks} |->
                Cardinality({i \in DOMAIN tasks : tasks[i].priority = p})],
        by_category |->
            [c \in {tasks[i].category : i \in DOMAIN tasks} |->
                Cardinality({i \in DOMAIN tasks : tasks[i].category = c})]]

\* TaskDatabase.get_task_statistics: the counts over all tasks and, by
\* priority and by category, over the tasks with completed = 0. Its entry
\* 'overdue' is the operator overdue above.
get_task_statistics ==
    LET active == {i \in DOMAIN tasks : tasks[i].completed = 0}
        total == Cardinality(DOMAIN tasks)
        completed == Cardinality({i \in DOMAIN tasks : tasks[i].completed = 1})
    IN [total |-> total,
        completed |-> completed,
        active |-> total - completed,
        by_priority |->
            [p \in {tasks[i].priority : i \in active} |->
                Cardinality({i \in active : tasks[i].priority = p})],
        by_category |->
            [c \in {tasks[i].category : i \in active} |->
                Cardinality({i \in active : tasks[i].category = c})]]

\* ------------------------------------------------------------ task dialog
\* TaskDialog.save: the result of the dialog for what the user entered, None
\* when a validator or the construction of the Task rejects it. An edited
\* task keeps its other fields; a new one is built by the constructor.
save(task, form) ==
    LET due == IF form.due_date = "" THEN None ELSE Some(form.due_date)
        new == Task(form.description, form.priority, Some(form.category),
                    FALSE, None, due, None, None, None)
    IN IF ~ validate_description(form.description) THEN None
       ELSE IF ~ validate_date(form.due_date) THEN None
       ELSE IF task # None
       THEN Some([task[1] EXCEPT !.description = form.description,
                                 !.priority = form.priority,
                                 !.category = Some(form.category),
                                 !.due_date = due])
       ELSE IF post_init_ok(new) THEN Some(new) ELSE None

\* TaskManagerApp.add_task: the dialog, then insert_task of its result if
\* it has one.
add_task(form) ==
    LET result == save(None, form) IN
    IF result = None
    THEN /\ connection = "open"
         /\ last' = Call("add_task", None, None, None, "rejected", clock)
         /\ UNCHANGED <<connection, schema, schema_version, tasks, seq,
                        categories, cat_seq, in_transaction, clock, assigned>>
    ELSE insert_task(result[1])

\* TaskManagerApp.edit_task: the selected task is fetched, the dialog
\* changes it, and update_task stores the result if there is one.
edit_task(task_id, form) ==
    LET result == IF tasks_table_ok /\ get_task_by_id(task_id) # None
                  THEN save(get_task_by_id(task_id), form)
                  ELSE None
    IN
    IF result = None
    THEN /\ connection = "open"
         /\ last' = Call("edit_task", Some(task_id), None, None,
                         IF ~ tasks_table_ok THEN "DatabaseError"
                         ELSE IF get_task_by_id(task_id) = None
                         THEN "not found" ELSE "rejected",
                         clock)
         /\ UNCHANGED <<connection, schema, schema_version, tasks, seq,
                        categories, cat_seq, in_transaction, clock, assigned>>
    ELSE update_task(result[1])

\* ----------------------------------------------------------- specification
\* Task objects handed to update_task directly (the dialog reaches it
\* through edit_task): the completed task, which no dialog builds, with the
\* identifier of a task that is or is not stored, or with none.
UpdateInputs ==
    {[t EXCEPT !.id = i] :
        t \in {u \in TaskInputs : u.completed},
        i \in {None} \cup {Some(k) : k \in TaskIds}}

\* The readings of the clock a call may see after the current one.
Later == {n \in {clock, clock + 1} : n <= MaxClock}

\* The calls a client of TaskDatabase, of DataExporter and of the task dialog
\* makes; no window is involved.
Next ==
    \/ Open /\ UNCHANGED app
    \/ Close /\ UNCHANGED app
    \/ Tick /\ UNCHANGED app
    \/ \E t \in TaskInputs : insert_task(t) /\ UNCHANGED app
    \/ \E t \in UpdateInputs : update_task(t) /\ UNCHANGED app
    \/ \E form \in Forms : add_task(form) /\ UNCHANGED app
    \/ \E i \in TaskIds, form \in Forms : edit_task(i, form) /\ UNCHANGED app
    \/ \E i \in TaskIds, n \in Later :
            mark_task_complete(i, n) /\ UNCHANGED app
    \/ \E i \in TaskIds : mark_task_incomplete(i) /\ UNCHANGED app
    \/ \E i \in TaskIds : delete_task(i) /\ UNCHANGED app
    \/ \E name \in NameInputs : insert_category(name) /\ UNCHANGED app
    \/ \E name \in CategoryNames : delete_category(name) /\ UNCHANGED app
    \/ \E file \in JsonFiles : import_from_json(file) /\ UNCHANGED app
    \/ \E rows \in CsvFiles : import_from_csv(rows) /\ UNCHANGED app

Spec == Init /\ [][Next]_vars

\* ------------------------------------------------------------------ claims
\* The identifiers of the Task objects in a list.
Ids(ts) == {ts[k].id[1] : k \in DOMAIN ts}

\* A list of Task objects holds no task twice, and each is the stored task
\* of its identifier.
StoredOnce(ts) ==
    /\ Cardinality(Ids(ts)) = Len(ts)
    /\ \A k \in DOMAIN ts : get_task_by_id(ts[k].id[1]) = Some(ts[k])

\* The tasks table was created by _create_initial_schema of this code.
FreshSchema == schema.tasks /\ schema.fk

\* C1: after insert_task(t) succeeds, get_task_by_id of the returned
\* identifier yields a task with the description, priority, category,
\* due_date and completed of t, whose created_at and updated_at are the time
\* of the insert, whatever timestamps t carried.
C1_InsertThenGet ==
    (last.op = "insert_task" /\ last.res = "ok") =>
        LET t == last.task[1]
            g == get_task_by_id(last.id[1])
        IN /\ g # None
           /\ g[1].id = last.id
           /\ g[1].description = t.description
           /\ g[1].priority = t.priority
           /\ g[1].category = t.category
           /\ g[1].due_date = t.due_date
           /\ g[1].completed = t.completed
           /\ g[1].created_at = Some(last.at)
           /\ g[1].updated_at = Some(last.at)

\* C1 witness: a task that carried an identifier and old timestamps has been
\* inserted and is stored under its new identifier.
C1_Witness ==
    /\ last.op = "insert_task"
    /\ last.res = "ok"
    /\ last.task[1].created_at = OldStamp
    /\ last.task[1].id # last.id
    /\ get_task_by_id(last.id[1]) # None

\* C2: mark_task_complete on a stored task succeeds and leaves it completed
\* with a completion timestamp; mark_task_incomplete on a stored task
\* succeeds and leaves it not completed and without one.
C2_MarkCompleteIncomplete ==
    /\ (last.op = "mark_task_complete" /\ last.id[1] \in DOMAIN tasks) =>
          LET g == get_task_by_id(last.id[1])[1]
          IN last.res = "ok" /\ g.completed /\ g.completed_at # None
    /\ (last.op = "mark_task_incomplete" /\ last.id[1] \in DOMAIN tasks) =>
          LET g == get_task_by_id(last.id[1])[1]
          IN last.res = "ok" /\ ~ g.completed /\ g.completed_at = None

\* C2 witness: a task marked complete at an earlier time has just been
\* marked incomplete.
C2_Witness ==
    /\ last.op = "mark_task_incomplete"
    /\ last.res = "ok"
    /\ last.id[1] \in DOMAIN tasks
    /\ tasks[last.id[1]].completed = 0
    /\ tasks[last.id[1]].created_at # tasks[last.id[1]].updated_at

\* C3 (as claimed): on a database created by this code, every stored task
\* has a completion timestamp exactly if it is completed.
C3_CompletedAtIffCompleted ==
    (connection = "open" /\ FreshSchema) =>
        \A i \in DOMAIN tasks :
            (tasks[i].completed_at # None) <=> (tasks[i].completed = 1)

\* C4: after delete_task succeeds the task is fetched as absent and is in
\* no list, and the statistics count one task less; delete_task on an
\* identifier that is not stored raises DatabaseError.
C4_Deleted ==
    (last.op = "delete_task" /\ last.res = "ok") =>
        LET i == last.id[1]
        IN /\ get_task_by_id(i) = None
           /\ i \notin Ids(get_all_tasks(TRUE))
           /\ i \notin Ids(get_all_tasks(FALSE))
           /\ i \notin Ids(get_completed_tasks)
           /\ \A c \in CategoryNames : i \notin Ids(get_tasks_by_category(c))
           /\ \A p \in valid_priorities : i \notin Ids(get_tasks_by_priority(p))
           /\ i \notin Ids(search_tasks(<< >>))
           /\ get_task_statistics.total = Len(get_all_tasks(TRUE))

C4_DeleteStep ==
    \A i \in TaskIds :
        delete_task(i) =>
            IF i \in DOMAIN tasks
            THEN /\ last'.res = "ok"
                 /\ get_task_statistics'.total = get_task_statistics.total - 1
                 /\ get_task_statistics'.completed + get_task_statistics'.active
                        = get_task_statistics.total - 1
            ELSE last'.res = "DatabaseError"

C5_NotFoundStep ==
    /\ \A t \in UpdateInputs :
          (update_task(t) /\ t.id # None /\ t.id[1] \notin DOMAIN tasks) =>
              (last'.res = "DatabaseError" /\ UNCHANGED <<tasks, categories>>)
    /\ \A i \in TaskIds :
          i \notin DOMAIN tasks =>
            /\ (\E n \in Later : mark_task_complete(i, n)) =>
                  (last'.res = "DatabaseError" /\ UNCHANGED <<tasks, categories>>)
            /\ mark_task_incomplete(i) =>
                  (last'.res = "DatabaseError" /\ UNCHANGED <<tasks, categories>>)
            /\ delete_task(i) =>
                  (last'.res = "DatabaseError" /\ UNCHANGED <<tasks, categories>>)

C5_NotFound == [][C5_NotFoundStep]_vars

\* C5 witness: update_task has just raised for an identifier that is not
\* stored, on a database that holds a task.
C5_Witness ==
    /\ last.op = "update_task"
    /\ last.res = "DatabaseError"
    /\ last.id # None
    /\ tasks_table_ok
    /\ last.id[1] \notin DOMAIN tasks
    /\ DOMAIN tasks # {}

\* C6: after TaskDatabase has created a database from an empty file the
\* category "General" is stored, and delete_category("General") raises
\* ValueError and changes no category and no task.
C6_AfterFreshOpen ==
    (last.op = "open" /\ last.res = "ok" /\ FreshSchema) =>
        \E k \in DOMAIN get_all_categories : get_all_categories[k].name = "General"

C6_DeleteGeneralStep ==
    delete_category("General") =>
        (last'.res = "ValueError" /\ UNCHANGED <<categories, tasks>>)

C6_General == [] C6_AfterFreshOpen /\ [][C6_DeleteGeneralStep]_vars

\* C6 witness: delete_category("General") has just raised ValueError on a
\* database created by this code that holds a task in "General".
C6_Witness ==
    /\ last.op = "delete_category"
    /\ last.name = Some("General")
    /\ last.res = "ValueError"
    /\ FreshSchema
    /\ "General" \in CategoryNamesStored
    /\ \E i \in DOMAIN tasks : tasks[i].category = Some("General")

\* C7 (as claimed): whenever the database is open, a category named
\* "General" is stored.
C7_GeneralAlwaysStored ==
    connection = "open" => "General" \in CategoryNamesStored

\* C8: get_tasks_by_category(c) returns exactly the stored tasks whose
\* category is c, and get_tasks_by_priority(p) exactly those whose priority
\* is p, each once.
C8_FiltersExact ==
    (connection = "open" /\ tasks_table_ok) =>
        /\ \A c \in CategoryNames \cup {"Home"} :
              LET r == get_tasks_by_category(c)
              IN /\ StoredOnce(r)
                 /\ \A k \in DOMAIN r : r[k].category = Some(c)
                 /\ \A i \in DOMAIN tasks :
                        get_task_by_id(i)[1].category = Some(c) => i \in Ids(r)
        /\ \A p \in valid_priorities :
              LET r == get_tasks_by_priority(p)
              IN /\ StoredOnce(r)
                 /\ \A k \in DOMAIN r : r[k].priority = p
                 /\ \A i \in DOMAIN tasks :
                        get_task_by_id(i)[1].priority = p => i \in Ids(r)

\* C8 witness: two tasks are stored, one in category "Work" with priority
\* "High" and one in another category with another priority.
C8_Witness ==
    /\ connection = "open"
    /\ tasks_table_ok
    /\ Len(get_tasks_by_category("Work")) = 1
    /\ Len(get_tasks_by_priority("High")) = 1
    /\ Ids(get_tasks_by_category("Work")) = Ids(get_tasks_by_priority("High"))
    /\ Cardinality(DOMAIN tasks) = 2

\* s contains q as a run of consecutive characters.
Contains(s, q) ==
    \E i \in 0..(Len(s) - Len(q)) : SubSeq(s, i + 1, i + Len(q)) = q

\* C9 (as claimed): on a database created by this code, search_tasks(q)
\* returns exactly the stored tasks whose description contains q, for
\* every q.
C9_SearchIsSubstring ==
    (connection = "open" /\ FreshSchema) =>
        \A q \in Queries :
            Ids(search_tasks(q)) =
                {i \in DOMAIN tasks : Contains(tasks[i].description, q)}

RECURSIVE SumOver(_, _)
SumOver(f, S) ==
    IF S = {} THEN 0
    ELSE LET k == CHOOSE x \in S : TRUE IN f[k] + SumOver(f, S \ {k})

SumOfCounts(f) == SumOver(f, DOMAIN f)

\* The stored tasks that from_db_row reads as completed.
CompletedIds == {i \in DOMAIN tasks : get_task_by_id(i)[1].completed}

C12_OverdueCount ==
    (connection = "open" /\ tasks_table_ok) =>
        /\ \A i \in DOMAIN tasks :
              LET t == get_task_by_id(i)[1]
              IN is_overdue(t) <=>
                    /\ ~ t.completed
                    /\ t.due_date # None
                    /\ strptime(t.due_date[1]) # None
                    /\ strptime(t.due_date[1])[1] < today
        /\ \A date_now \in UtcDates :
              overdue(date_now) =
                  Cardinality({i \in DOMAIN tasks :
                                  is_overdue(get_task_by_id(i)[1])})

\* Lists of one or two Task objects.
TaskLists ==
    {<<t>> : t \in TaskInputs} \cup {<<t, u>> : t \in TaskInputs, u \in TaskInputs}

\* Importing the file export_to_json writes for L yields the tasks of L in
\* their order, each without its identifier and else unchanged.
RoundTrip(L) ==
    LET R == import_tasks(export_to_json(L))
    IN /\ Len(R) = Len(L)
       /\ \A k \in DOMAIN L :
             /\ R[k] = [L[k] EXCEPT !.id = None]
             /\ post_init_ok(R[k])

\* C13: import_from_json of the file export_to_json wrote for a list of
\* tasks returns as many tasks in the same order, each equal to the
\* original in every field but the identifier, which is None; this for
\* lists of new Task objects and for the list of all stored tasks.
C13_JsonRoundTrip ==
    /\ \A L \in TaskLists : RoundTrip(L)
    /\ (connection = "open" /\ tasks_table_ok) => RoundTrip(get_all_tasks(TRUE))

\* C13 witness: two tasks are stored, one of them completed with a
\* completion timestamp and one with a due date: the list an export writes.
C13_Witness ==
    /\ connection = "open"
    /\ tasks_table_ok
    /\ Len(get_all_tasks(TRUE)) = 2
    /\ \E k \in 1..2 : get_all_tasks(TRUE)[k].completed_at # None
    /\ \E k \in 1..2 : get_all_tasks(TRUE)[k].due_date # None
    /\ import_tasks(export_to_json(get_all_tasks(TRUE)))[1].id = None

\* C14: every identifier a step gives to a new task, by insert_task or by an
\* import, was never handed out by the database before, whatever
\* identifier the Task object or the file carried; insert_task returns the
\* identifier of the row it stored.
C14_FreshIdStep ==
    /\ (DOMAIN tasks' \ DOMAIN tasks) \cap assigned = {}
    /\ assigned \subseteq assigned'
    /\ DOMAIN tasks' \subseteq assigned'
    /\ (last'.op = "insert_task" /\ last'.res = "ok" /\ tasks' # tasks) =>
          /\ last'.id[1] \notin assigned
          /\ DOMAIN tasks' \ DOMAIN tasks = {last'.id[1]}

MutatingOps ==
    {"insert_task", "update_task", "delete_task", "mark_task_complete",
     "mark_task_incomplete", "insert_category", "delete_category"}

\* C15 (as claimed): on a database created by this code, when a mutating
\* operation has returned or raised, the connection has no transaction
\* open.
C15_TransactionEnded ==
    (connection = "open" /\ FreshSchema /\ last.op \in MutatingOps) =>
        ~ in_transaction

\* C16: when TaskDatabase opens a file whose recorded version is absent or
\* older than VERSION and does not raise, the recorded version is VERSION,
\* both tables exist and the tasks table has every current column. With no
\* version and no tasks table the tasks table is created with the current
\* columns and the foreign key and "General" is stored; with an older
\* version the stored tasks keep their identifiers and values.
C16_OpenStep ==
    (Open /\ last'.res = "ok" /\ get_version < VERSION) =>
        /\ get_version' = VERSION
        /\ schema'.tasks
        /\ schema'.categories
        /\ Range(TaskColumns) \subseteq Range(schema'.columns)
        /\ (get_version = 0 /\ ~ schema.tasks) =>
              /\ schema'.columns = TaskColumns
              /\ schema'.fk
              /\ "General" \in CategoryNamesStored'
        /\ get_version # 0 =>
              /\ DOMAIN tasks' = DOMAIN tasks
              /\ \A i \in DOMAIN tasks : \A c \in DOMAIN tasks[i] :
                    tasks'[i][c] = tasks[i][c]

C17_DeleteCategoryStep ==
    \A c \in CategoryNames \ {"General"} :
        (delete_category(c) /\ last'.res = "ok") =>
            /\ \A k \in DOMAIN get_all_categories' :
                  get_all_categories'[k].name # c
            /\ \A i \in DOMAIN tasks :
                  tasks[i].category = Some(c) =>
                      tasks'[i].category = Some("General")
            /\ \A i \in DOMAIN tasks' : tasks'[i].category # Some(c)

C17_DeleteCategory == [][C17_DeleteCategoryStep]_vars

\* Descriptions and priorities a Task is built of.
DescriptionInputs == {<< >>, <<" ">>, <<" ", "\t">>, <<"a">>, <<" ", "a">>}

PriorityInputs == valid_priorities \cup {"Someday", "low", ""}

\* C18: the construction of a Task succeeds exactly if its description has
\* a character that is no whitespace and its priority is one of Low,
\* Medium, High, Urgent; the construction of a Category exactly if its name
\* has such a character. A call that ends in ValueError yields no object.
C18_Constructors ==
    /\ \A d \in DescriptionInputs, p \in PriorityInputs :
          post_init_ok(Task(d, p, None, FALSE, None, None, None, None, None))
            <=> /\ \E i \in DOMAIN d : d[i] \notin {" ", "\t", "\n"}
                /\ p \in {"Low", "Medium", "High", "Urgent"}
    /\ \A n \in NameInputs \cup {"", "\t"} :
          category_post_init_ok(Category(n, None, None))
            <=> n \notin {"", " ", "\t"}

\* C18, the calls: a step in which an import or insert_category ends in
\* ValueError stores no task and no category.
C18_ValueErrorStep ==
    (/\ last'.res = "ValueError"
     /\ last'.op \in {"import_from_json", "import_from_csv", "insert_category"})
        => UNCHANGED <<tasks, categories>>

C18_Validation == [] C18_Constructors /\ [][C18_ValueErrorStep]_vars

\* C18 witness: an import into a database that holds a task has ended in
\* ValueError.
C18_Witness ==
    /\ last.op = "import_from_json"
    /\ last.res = "ValueError"
    /\ DOMAIN tasks # {}

\* C19 (as claimed): on a database created by this code, every stored task
\* has a description that is not blank and has at most 500 characters, a
\* priority among the four levels, and a due date that is absent or that
\* strptime reads as YYYY-MM-DD.
C19_StoredFieldsValid ==
    (connection = "open" /\ FreshSchema) =>
        \A i \in DOMAIN tasks :
            /\ validate_description(tasks[i].description)
            /\ tasks[i].priority \in valid_priorities
            /\ \/ tasks[i].due_date = None
               \/ strptime(tasks[i].due_date[1]) # None

\* C20 (as claimed): an import that ends in an error leaves the stored
\* tasks as they were before it.
C20_ImportStep ==
    (/\ last'.op \in {"import_from_json", "import_from_csv"}
     /\ last'.res # "ok")
        => UNCHANGED tasks

C20_ImportAllOrNothing == [][C20_ImportStep]_vars

\* The number of entries of get_all_categories with name n.
Listed(n) ==
    Cardinality({k \in DOMAIN get_all_categories :
                    get_all_categories[k].name = n})

\* C21: no two stored categories have the same name and get_all_categories
\* lists each stored name once; after insert_category(n) succeeds n is
\* listed exactly once; insert_category with a name already stored,
\* "General" included, raises DatabaseError and leaves the categories as
\* they were.
C21_UniqueNames ==
    /\ \A c, d \in DOMAIN categories :
          categories[c].name = categories[d].name => c = d
    /\ \A n \in CategoryNamesStored : Listed(n) = 1
    /\ Len(get_all_categories) = Cardinality(DOMAIN categories)
    /\ (last.op = "insert_category" /\ last.res = "ok") =>
          Listed(last.name[1]) = 1

C21_DuplicateStep ==
    (last'.op = "insert_category" /\ last' # last
        /\ last'.name[1] \in CategoryNamesStored) =>
        /\ last'.res = "DatabaseError"
        /\ categories' = categories
        /\ cat_seq' = cat_seq

C21_CategoryNamesUnique == []C21_UniqueNames /\ [][C21_DuplicateStep]_vars

\* C21 witness: insert_category("General") has just been refused on a
\* database that stores "General", and nothing else was added.
C21_Witness ==
    /\ last.op = "insert_category"
    /\ last.name = Some("General")
    /\ last.res = "DatabaseError"
    /\ CategoryNamesStored = {"General"}
    /\ Listed("General") = 1

\* C22: a successful update_task(t) stores the description, priority,
\* category, due_date and completed of t under t.id with updated_at the
\* time of the call, and keeps id and created_at; a successful
\* mark_task_complete or mark_task_incomplete sets updated_at to the time
\* of the call; no step lowers the updated_at of a stored task; and
\* created_at <= updated_at for every stored task.
C22_StampsOrdered ==
    \A i \in DOMAIN tasks :
        {"created_at", "updated_at"} \subseteq DOMAIN tasks[i] =>
            /\ tasks[i].created_at # None
            /\ tasks[i].updated_at # None
            /\ tasks[i].created_at[1] <= tasks[i].updated_at[1]

C22_UpdateStep ==
    /\ (last'.op = "update_task" /\ last'.res = "ok") =>
          LET t == last'.task[1]
              i == t.id[1]
          IN /\ i \in DOMAIN tasks
             /\ i \in DOMAIN tasks'
             /\ tasks'[i].description = t.description
             /\ tasks'[i].priority = t.priority
             /\ tasks'[i].category = t.category
             /\ tasks'[i].due_date = t.due_date
             /\ bool_of(tasks'[i].completed) = t.completed
             /\ tasks'[i].updated_at = Some(last'.at)
             /\ tasks'[i].id = tasks[i].id
             /\ tasks'[i].created_at = tasks[i].created_at
    /\ (last'.op \in {"mark_task_complete", "mark_task_incomplete"}
            /\ last'.res = "ok") =>
          tasks'[last'.id[1]].updated_at = Some(last'.at)
    /\ \A i \in DOMAIN tasks \cap DOMAIN tasks' :
          "updated_at" \in DOMAIN tasks[i] =>
              tasks[i].updated_at[1] <= tasks'[i].updated_at[1]

C23_DeleteCategoryStep ==
    (last'.op = "delete_category" /\ last' # last) =>
        /\ DOMAIN tasks' = DOMAIN tasks
        /\ seq' = seq
        /\ \A i \in DOMAIN tasks :
              /\ DOMAIN tasks'[i] = DOMAIN tasks[i]
              /\ \A c \in DOMAIN tasks[i] \ {"category"} :
                    tasks'[i][c] = tasks[i][c]

C23_DeleteCategoryKeepsTasks == [][C23_DeleteCategoryStep]_vars

\* C23 witness: on a database created by this code, "Work" has been
\* deleted while a task referred to it; the task is stored, in "General".
C23_Witness ==
    /\ last.op = "delete_category"
    /\ last.name = Some("Work")
    /\ last.res = "ok"
    /\ schema.fk
    /\ \E i \in DOMAIN tasks :
          /\ tasks[i].description = <<"A">>
          /\ tasks[i].category = Some("General")

\* The stored categories named "General".
Generals == {c \in DOMAIN categories : categories[c].name = "General"}

\* C24: no step lowers the recorded version (the maximum of
\* schema_version); opening a file whose recorded version is VERSION adds
\* no row to schema_version and leaves the schema, the tasks and the
\* categories as they were; opening a file that has both tables and no
\* recorded version (an interrupted first start) succeeds, records VERSION
\* and leaves exactly one "General".
C24_OpenStep ==
    /\ get_version <= get_version'
    /\ (Open /\ get_version = VERSION) =>
          /\ last'.res = "ok"
          /\ schema_version' = schema_version
          /\ schema' = schema
          /\ tasks' = tasks
          /\ seq' = seq
          /\ categories' = categories
          /\ cat_seq' = cat_seq
    /\ (Open /\ get_version = 0 /\ schema.tasks /\ schema.categories
            /\ schema.columns = TaskColumns) =>
          /\ last'.res = "ok"
          /\ get_version' = VERSION
          /\ Cardinality(Generals') = 1
          /\ Generals \subseteq Generals'

C24_VersionMonotone == [][C24_OpenStep]_vars

\* C24 witness: a database created by this code that stores a task has
\* been closed and opened again at the current version.
C24_Witness ==
    /\ last.op = "open"
    /\ last.res = "ok"
    /\ schema_version = {VERSION}
    /\ schema.fk
    /\ DOMAIN tasks # {}

\* A row export_to_csv wrote, and the rows that differ from it in one cell.
BaseRow ==
    csv_row(to_dict(Task(<<"a">>, "Low", Some("Work"), FALSE, Some(1),
                         Some("2024-01-01"), Some(1), Some(1), Some(1))))

OptionalCells ==
    {"category", "due_date", "created_at", "updated_at", "completed_at"}

CsvRows ==
    {[BaseRow EXCEPT ![f] = v] : f \in OptionalCells, v \in NoneTexts}
        \cup {[BaseRow EXCEPT !.completed = v] :
                v \in {"1", "True", "true", "0", "False", "TRUE", ""}}
        \cup {[BaseRow EXCEPT !.description = d] : d \in NoneDescriptions}
        \cup {[BaseRow EXCEPT !.priority = v] : v \in NoneTexts}

\* The row has a placeholder for its description or its priority.
Placeholder(row) ==
    row.description \in NoneDescriptions \/ row.priority \in NoneTexts

\* C25: import_from_csv makes of a row a task without identifier, completed
\* exactly when the completed cell is '1', 'True' or 'true', and with None
\* for each of category, due_date, created_at, updated_at and completed_at
\* whose cell is 'None', 'null' or ''; a row whose description or priority
\* cell is such a text yields no task: the construction of the Task fails,
\* and the import of a file with such a row ends in ValueError and stores
\* nothing.
C25_Rows ==
    \A row \in CsvRows :
        LET t == import_csv_tasks(<<row>>)[1] IN
        IF Placeholder(row)
        THEN ~ post_init_ok(t)
        ELSE /\ post_init_ok(t)
             /\ t.id = None
             /\ t.completed = (row.completed \in {"1", "True", "true"})
             /\ \A f \in OptionalCells :
                   row[f] \in NoneTexts => t[f] = None

C25_FailStep ==
    (last'.op = "import_from_csv" /\ last' # last) =>
        \A rows \in {r \in CsvFiles : \E k \in DOMAIN r : Placeholder(r[k])} :
            import_from_csv(rows) =>
                /\ last'.res = "ValueError"
                /\ UNCHANGED <<tasks, seq>>

C25_CsvImport == []C25_Rows /\ [][C25_FailStep]_vars

\* C25 witness: the export of a completed task without category has been
\* imported: it is stored as completed, without category, and under an
\* identifier other than the 1 of its id cell.
C25_Witness ==
    /\ last.op = "import_from_csv"
    /\ last.res = "ok"
    /\ \E i \in DOMAIN tasks :
          /\ i # 1
          /\ tasks[i].description = <<"x">>
          /\ tasks[i].category = None
          /\ tasks[i].completed = 1
          /\ tasks[i].created_at = Some(last.at)

\* C27: on a database created by this code, the category of every stored
\* task is None or the name of a stored category; insert_task(t), and
\* update_task(t) for a task with an identifier, where t.category names no
\* stored category, raise DatabaseError and leave the stored tasks as they
\* were.
C27_CategoriesExist ==
    FreshSchema =>
        \A i \in DOMAIN tasks :
            \/ tasks[i].category = None
            \/ tasks[i].category[1] \in CategoryNamesStored

C27_UnknownCategoryStep ==
    (/\ FreshSchema
     /\ last'.op \in {"insert_task", "update_task"}
     /\ last' # last
     /\ last'.task[1].id # None \/ last'.op = "insert_task"
     /\ last'.task[1].category # None
     /\ last'.task[1].category[1] \notin CategoryNamesStored) =>
        /\ last'.res = "DatabaseError"
        /\ tasks' = tasks
        /\ seq' = seq

C27_ReferentialIntegrity ==
    []C27_CategoriesExist /\ [][C27_UnknownCategoryStep]_vars

\* C27 witness: on a database created by this code, the update of a stored
\* task to the category "Work", which is not stored, has been refused.
C27_Witness ==
    /\ FreshSchema
    /\ last.op = "update_task"
    /\ last.res = "DatabaseError"
    /\ last.id # None
    /\ last.id[1] \in DOMAIN tasks
    /\ last.task[1].category = Some("Work")
    /\ "Work" \notin CategoryNamesStored
    /\ tasks[last.id[1]].category # Some("Work")

\* C30: insert_task changes no stored task; update_task,
\* mark_task_complete, mark_task_incomplete and delete_task on identifier i
\* leave every stored task with another identifier as it was; and none of
\* the five changes a category.
C30_LocalStep ==
    /\ (last'.op = "insert_task" /\ last' # last) =>
          /\ \A j \in DOMAIN tasks : j \in DOMAIN tasks' /\ tasks'[j] = tasks[j]
          /\ categories' = categories
    /\ (/\ last'.op \in {"update_task", "mark_task_complete",
                          "mark_task_incomplete", "delete_task"}
        /\ last' # last) =>
          /\ \A j \in DOMAIN tasks :
                last'.id # Some(j) =>
                    j \in DOMAIN tasks' /\ tasks'[j] = tasks[j]
          /\ DOMAIN tasks' \subseteq DOMAIN tasks
          /\ categories' = categories

C30_OperationsLocal == [][C30_LocalStep]_vars

\* C30 witness: with two tasks stored, task 2 has been deleted and task 1
\* is still stored.
C30_Witness ==
    /\ last.op = "delete_task"
    /\ last.res = "ok"
    /\ last.id = Some(2)
    /\ DOMAIN tasks = {1}

\* ------------------------------------------------------------- application
\* How many TaskDatabase objects one run of the application may construct.
MaxOpened == 2

\* TaskManagerApp._populate_tree: the values of the row shown for a task.
tree_values(t) ==
    [id |-> t.id[1], description |-> t.description, priority |-> t.priority,
     category |-> t.category, due_date |-> csv_text(t.due_date),
     created |-> t.created_at]

\* TaskManagerApp._populate_tree: one row for each task, in their order.
populate_tree(ts) == [k \in DOMAIN ts |-> tree_values(ts[k])]

\* str.lower of a description or of a search text.
lower(text) == [k \in DOMAIN text |-> Lower(text[k])]

\* TaskManagerApp.apply_filters: the tasks of ts it keeps for this search
\* text, category and priority.
filtered_tasks(ts, search, category, priority) ==
    SelectSeq(ts, LAMBDA t :
        /\ search = << >> \/ Contains(lower(t.description), lower(search))
        /\ category \in {"", "All"} \/ t.category = Some(category)
        /\ priority \in {"", "All"} \/ t.priority = priority)

\* The queries of a TaskDatabase raise DatabaseError on a closed connection.
queries_ok == connection = "open" /\ tasks_table_ok

\* TaskManagerApp.refresh_active_tasks: the view is emptied, then filled
\* with every active task; it stays empty when the query raises.
refresh_active_tasks ==
    \E ts \in {IF queries_ok' THEN get_all_tasks(FALSE)' ELSE << >>} :
        active_tree' = populate_tree(ts)

\* TaskManagerApp.refresh_completed_tasks
refresh_completed_tasks ==
    \E ts \in {IF queries_ok' THEN get_completed_tasks' ELSE << >>} :
        completed_tree' = populate_tree(ts)

\* TaskManagerApp.refresh_all: both views (the category list of the toolbar
\* and the status bar are not part of the state).
refresh_all == refresh_active_tasks /\ refresh_completed_tasks

\* What a handler that calls the database does next: refresh_all after a
\* call that returned, a message box and nothing else after one that raised.
\* No handler touches the toolbar.
refresh_if_ok ==
    /\ IF last'.res = "ok" THEN refresh_all
       ELSE UNCHANGED <<active_tree, completed_tree>>
    /\ UNCHANGED <<opened, search_var, category_filter_var,
                   priority_filter_var>>

\* TaskManagerApp.get_selected_task_id: a task is selected in a view.
selected(task_id) ==
    \/ \E k \in DOMAIN active_tree : active_tree[k].id = task_id
    \/ \E k \in DOMAIN completed_tree : completed_tree[k].id = task_id

\* TaskManagerApp.__init__: the database is opened (a failure ends the
\* application), the toolbar is built and the views are loaded.
TaskManagerApp_init ==
    /\ opened = 0
    /\ Open
    /\ IF connection' = "open"
       THEN /\ opened' = 1
            /\ search_var' = << >>
            /\ category_filter_var' = "All"
            /\ priority_filter_var' = "All"
            /\ refresh_all
       ELSE UNCHANGED app

\* TaskManagerApp.on_closing: the database is closed and the window goes.
on_closing ==
    /\ opened > 0
    /\ connection' = "closed"
    /\ in_transaction' = FALSE
    /\ last' = Call("on_closing", None, None, None, "ok", clock)
    /\ opened' = 0
    /\ search_var' = << >>
    /\ category_filter_var' = "All"
    /\ priority_filter_var' = "All"
    /\ active_tree' = << >>
    /\ completed_tree' = << >>
    /\ UNCHANGED <<schema, schema_version, tasks, seq, categories, cat_seq,
                   clock, assigned>>

\* TaskManagerApp.add_task with the view: refresh_all after insert_task.
app_add_task(form) == opened > 0 /\ add_task(form) /\ refresh_if_ok

\* TaskManagerApp.edit_task with the view, for the selected task.
app_edit_task(task_id, form) ==
    opened > 0 /\ selected(task_id) /\ edit_task(task_id, form) /\ refresh_if_ok

\* TaskManagerApp.delete_task, for the selected task.
app_delete_task(task_id) ==
    opened > 0 /\ selected(task_id) /\ delete_task(task_id) /\ refresh_if_ok

\* TaskManagerApp.mark_complete, for the selected task.
mark_complete(task_id, now2) ==
    /\ opened > 0
    /\ selected(task_id)
    /\ mark_task_complete(task_id, now2)
    /\ refresh_if_ok

\* TaskManagerApp.mark_incomplete, for the selected task.
mark_incomplete(task_id) ==
    /\ opened > 0
    /\ selected(task_id)
    /\ mark_task_incomplete(task_id)
    /\ refresh_if_ok

\* TaskManagerApp.import_from_json with the view.
app_import_from_json(file) ==
    opened > 0 /\ import_from_json(file) /\ refresh_if_ok

\* TaskManagerApp.import_from_csv with the view.
app_import_from_csv(rows) ==
    opened > 0 /\ import_from_csv(rows) /\ refresh_if_ok

\* View > Refresh, F5, the Refresh button: refresh_all. On a closed
\* connection the queries raise and both views end up empty.
refresh ==
    /\ opened > 0
    /\ UNCHANGED <<connection, schema, schema_version, tasks, seq,
                   categories, cat_seq, in_transaction, clock, assigned,
                   opened, search_var, category_filter_var,
                   priority_filter_var>>
    /\ refresh_all
    /\ last' = Call("refresh_all", None, None, None,
                    IF queries_ok THEN "ok" ELSE "DatabaseError", clock)

\* TaskManagerApp.apply_filters, run when the user changes the search text
\* or selects a category or a priority: the active view gets the active
\* tasks that pass; the completed view is not touched.
apply_filters(search, category, priority) ==
    /\ opened > 0
    /\ search_var' = search
    /\ category_filter_var' = category
    /\ priority_filter_var' = priority
    /\ IF queries_ok
       THEN \E all_tasks \in {get_all_tasks(FALSE)} :
            \E shown \in {filtered_tasks(all_tasks, search, category,
                                          priority)} :
                active_tree' = populate_tree(shown)
       ELSE UNCHANGED active_tree
    /\ last' = Call("apply_filters", None, None, None,
                    IF queries_ok THEN "ok" ELSE "DatabaseError", clock)
    /\ UNCHANGED <<connection, schema, schema_version, tasks, seq,
                   categories, cat_seq, in_transaction, clock, assigned,
                   opened, completed_tree>>

\* TaskManagerApp.clear_filters: the three toolbar entries are reset, then
\* refresh_active_tasks.
clear_filters ==
    /\ opened > 0
    /\ search_var' = << >>
    /\ category_filter_var' = "All"
    /\ priority_filter_var' = "All"
    /\ UNCHANGED <<connection, schema, schema_version, tasks, seq,
                   categories, cat_seq, in_transaction, clock, assigned,
                   opened, completed_tree>>
    /\ refresh_active_tasks
    /\ last' = Call("clear_filters", None, None, None, "ok", clock)

\* TaskManagerApp.create_backup: the database file is copied; nothing of
\* the application changes.
create_backup ==
    /\ opened > 0
    /\ last' = Call("create_backup", None, None, None, "ok", clock)
    /\ UNCHANGED <<connection, schema, schema_version, tasks, seq,
                   categories, cat_seq, in_transaction, clock, assigned>>
    /\ UNCHANGED app

\* Backups made by create_backup: the database of a first start, and the
\* same with a task added. A backup is at the current version, so opening
\* it changes nothing.
FirstBackup ==
    [schema |-> [schema_version |-> TRUE, tasks |-> TRUE,
                 columns |-> TaskColumns, fk |-> TRUE, categories |-> TRUE],
     schema_version |-> {VERSION}, tasks |-> << >>, seq |-> 0,
     categories |-> (1 :> [id |-> 1, name |-> "General",
                           description |-> GeneralDescription]),
     cat_seq |-> 1]

BackupFiles ==
    {FirstBackup,
     [FirstBackup EXCEPT
        !.tasks = (1 :> [id |-> 1, description |-> <<"a", "b">>,
                         priority |-> "Low", category |-> Some("General"),
                         due_date |-> None, completed |-> 0,
                         created_at |-> Some(1), updated_at |-> Some(1),
                         completed_at |-> None]),
        !.seq = 1]}

\* TaskManagerApp.restore_backup: self.db.close(), then the copy of the
\* backup over the database file, then self.db = TaskDatabase() and
\* refresh_all. When the copy raises (copied is false) the except clause
\* shows a message and the handler ends: self.db is the closed object.
restore_backup(backup, copied) ==
    /\ opened > 0
    /\ opened < MaxOpened
    /\ in_transaction' = FALSE
    /\ UNCHANGED <<clock, search_var, category_filter_var,
                   priority_filter_var>>
    /\ IF copied
       THEN /\ schema' = backup.schema
            /\ schema_version' = backup.schema_version
            /\ tasks' = backup.tasks
            /\ seq' = backup.seq
            /\ categories' = backup.categories
            /\ cat_seq' = backup.cat_seq
            /\ assigned' = DOMAIN backup.tasks
            /\ connection' = "open"
            /\ opened' = opened + 1
            /\ last' = Call("restore_backup", None, None, None, "ok", clock)
            /\ refresh_all
       ELSE /\ connection' = "closed"
            /\ last' = Call("restore_backup", None, None, None, "Exception",
                            clock)
            /\ UNCHANGED <<schema, schema_version, tasks, seq, categories,
                           cat_seq, assigned, opened, active_tree,
                           completed_tree>>

\* What the user enters in the toolbar.
SearchTexts == {<< >>, <<"a">>}

CategoryChoices == {"All", "Work"}

PriorityChoices == {"All", "High"}

\* What the user enters in the task dialog: a task of the default category,
\* and a description of blanks.
AppForms ==
    {[description |-> <<"A">>, priority |-> "High", category |-> "General",
      due_date |-> ""],
     [description |-> <<" ">>, priority |-> "Low", category |-> "General",
      due_date |-> ""]}

\* The files the user imports: the export of one task, and a file written
\* by hand whose second record is rejected.
AppJsonFiles ==
    {export_to_json(<<t>>) : t \in {u \in TaskInputs : ~ u.completed}}
        \cup {f \in MalformedFiles : Len(f) = 2}

AppCsvFiles ==
    {export_to_csv(<<t>>) : t \in {u \in TaskInputs : u.completed}}

\* The application: what its user does, one action at a time. The clock
\* stands still: no view and no connection depends on the time.
AppNext ==
    \/ TaskManagerApp_init
    \/ on_closing
    \/ \E form \in AppForms : app_add_task(form)
    \/ \E i \in TaskIds, form \in AppForms : app_edit_task(i, form)
    \/ \E i \in TaskIds : app_delete_task(i)
    \/ \E i \in TaskIds : mark_complete(i, clock)
    \/ \E i \in TaskIds : mark_incomplete(i)
    \/ \E file \in AppJsonFiles : app_import_from_json(file)
    \/ \E rows \in AppCsvFiles : app_import_from_csv(rows)
    \/ refresh
    \/ \E s \in SearchTexts, c \in CategoryChoices, p \in PriorityChoices :
            apply_filters(s, c, p)
    \/ clear_filters
    \/ create_backup
    \/ \E b \in BackupFiles, copied \in BOOLEAN : restore_backup(b, copied)

\* The application has not been started and its database file is new.
AppInit == Init /\ schema = EmptyFile.schema

AppSpec == AppInit /\ [][AppNext]_vars

\* C26 (as claimed): while the application runs it has constructed one
\* TaskDatabase, at its start: no action of the user lets it close that
\* connection and open another.
C26_OneConnection == opened <= 1

\* C28 (as claimed): when restore_backup has ended, with or without an
\* error, the connection of self.db is open.
C28_OpenAfterRestore ==
    (opened > 0 /\ last.op = "restore_backup") => connection = "open"

\* The calls the handlers of the user's actions leave in `last`.
UserActions ==
    {"insert_task", "add_task", "update_task", "edit_task", "delete_task",
     "mark_task_complete", "mark_task_incomplete", "import_from_json",
     "import_from_csv", "refresh_all", "apply_filters", "clear_filters"}

\* The stored task i passes the filters selected in the toolbar.
Selected(i) ==
    /\ search_var = << >>
          \/ Contains(lower(tasks[i].description), lower(search_var))
    /\ category_filter_var = "All"
          \/ tasks[i].category = Some(category_filter_var)
    /\ priority_filter_var = "All"
          \/ tasks[i].priority = priority_filter_var

\* The view shows the stored tasks with identifiers in S, each once, and
\* nothing else.
Shows(tree, S) ==
    /\ Len(tree) = Cardinality(S)
    /\ {tree[k] : k \in DOMAIN tree} =
            {tree_values(get_task_by_id(i)[1]) : i \in S}

\* C29 (as claimed): when the handler of a user action has ended on an open
\* database, the active view shows exactly the stored tasks that are not
\* completed and pass the search text, category and priority selected in
\* the toolbar, and the completed view exactly the stored completed tasks.
C29_ViewsMatchFilters ==
    (opened > 0 /\ connection = "open" /\ last.op \in UserActions) =>
        /\ Shows(active_tree,
                 {i \in DOMAIN tasks : tasks[i].completed = 0 /\ Selected(i)})
        /\ Shows(completed_tree,
                 {i \in DOMAIN tasks : tasks[i].completed = 1})

====
